---------------------------- MODULE Spec2Model ----------------------------
(***************************************************************************)
(* helper::ThreadPool and helper::ThreadPoolWorker (include/ThreadPool.h). *)
(*                                                                         *)
(* Threads of the model: the worker threads 1..nThreads started by the     *)
(* constructor, producer threads that call addTask, and the owner thread   *)
(* that calls waitUntilComplete and finally the destructor.  Each thread   *)
(* has a program counter; one action is one step of the source between two *)
(* points at which another thread can observe or change shared state.      *)
(* mt_ is modelled as a lock with a holder, cv_ as the set of workers      *)
(* blocked inside cv_.wait.                                                *)
(***************************************************************************)
EXTENDS Integers, Sequences, FiniteSets, TLC

\* ------------------------------------------------------------------ bounds
MaxWorkers == 2
MaxProducers == 1
MaxTasks == 2
MaxGarbage == 1

VARIABLES
    nThreads,        \* constructor argument nThreads
    nProducers,      \* number of threads that call addTask
    log_,            \* what has been written to *log_ (message kinds, in order)
    tasks_,          \* std::queue<std::function<void()>> tasks_
    working_,        \* std::vector<char> working_
    mt_,             \* holder of std::mutex mt_
    cv_,             \* workers blocked in cv_.wait(lock)
    allowNewTasks_,  \* bool allowNewTasks_
    terminate_,      \* bool terminate_
    joinable,        \* workers_[i].joinable()
    wpc,             \* position of each worker in ThreadPoolWorker::operator()
    currentTask,     \* the local std::function currentTask of each worker
    ppc,             \* position of each producer in addTask
    pTask,           \* the argument `function` of the producer's addTask call
    opc,             \* position of the owner in waitUntilComplete
    dArgs,           \* <<allowNewTasks, abandonTasks, terminatePool>> of the call
    dIdx,            \* loop index of the join loop / of std::any_of
    inDtor,          \* the running waitUntilComplete was called by ~ThreadPool
    crashed,         \* the process has been aborted
    \* ---- history (observation only; never read by an action's guard)
    nextId,          \* number of addTask calls made so far
    enqueued,        \* ids pushed to tasks_, in push order
    dequeued,        \* ids popped from tasks_ by workers, in pop order
    executed,        \* id of every task body run, in completion order
    faulted,         \* ids of the tasks whose body threw
    discarded,       \* ids popped by waitUntilComplete's abandon loop
    rejected,        \* <<id, r>>: addTask refused task id; r: the workers had been joined
    garbage,         \* number of reads of tasks_.front() on an empty queue
    atCall           \* <<Len(enqueued), Len(dequeued)>> at the call of an abandoning
                     \* waitUntilComplete

vars == <<nThreads, nProducers, log_, tasks_, working_, mt_, cv_, allowNewTasks_,
          terminate_, joinable, wpc, currentTask, ppc, pTask, opc, dArgs, dIdx,
          inDtor, crashed, nextId, enqueued, dequeued, executed, faulted,
          discarded, rejected, garbage, atCall>>

poolVars == <<log_, tasks_, working_, mt_, cv_, allowNewTasks_, terminate_,
              joinable, wpc, currentTask>>
histVars == <<nextId, enqueued, dequeued, executed, faulted, discarded, rejected,
              garbage>>
ownerVars == <<opc, dArgs, dIdx, inDtor, atCall>>
prodVars == <<ppc, pTask>>
confVars == <<nThreads, nProducers>>

\* ------------------------------------------------------------------ values
Workers == 1..nThreads
Producers == 1..nProducers

Free == <<"free", 0>>
WorkerThread(w) == <<"worker", w>>
ProducerThread(p) == <<"producer", p>>
OwnerThread == <<"owner", 0>>

\* What a call of a task body does: return, throw something derived from
\* std::exception, or throw anything else.  The pool knows nothing about the
\* body; the outcome is chosen when the body is called.
Kinds == {"returns", "throws_exception", "throws_other"}

\* A std::function<void()> holding a task is identified by the number of the
\* addTask call that submitted it (1, 2, ...).  EmptyFn is a
\* default-constructed std::function<void()>, which holds no task.
EmptyFn == 0

\* Calling f: an empty std::function throws std::bad_function_call, which
\* derives from std::exception; a task does what its body does.
Outcome(f, k) == IF f = EmptyFn THEN "throws_exception" ELSE k

MsgRejected == "addTask: stopped thread pool"
MsgTaskError == "ThreadPoolWorker: task error"

\* ThreadPool::logMessage: writes to *log_ unless log_ is nullptr.
logMessage(sink, msg) == IF sink = <<"nullptr">> THEN sink ELSE Append(sink, msg)

\* -------------------------------------------------------------------- Init
\* ThreadPool::ThreadPool: nThreads workers, every working_ flag false, the
\* workers started at the top of their loop; the member initialisers give
\* allowNewTasks_ = true and terminate_ = false.  The pool is constructed with
\* a log stream, as in examples/ThreadPool.cpp.
Init ==
    /\ nThreads \in 1..MaxWorkers
    /\ nProducers \in 1..MaxProducers
    /\ log_ = <<>>
    /\ tasks_ = <<>>
    /\ working_ = [w \in 1..nThreads |-> FALSE]
    /\ mt_ = Free
    /\ cv_ = {}
    /\ allowNewTasks_ = TRUE
    /\ terminate_ = FALSE
    /\ joinable = [w \in 1..nThreads |-> TRUE]
    /\ wpc = [w \in 1..nThreads |-> "lock"]
    /\ currentTask = [w \in 1..nThreads |-> EmptyFn]
    /\ ppc = [p \in 1..nProducers |-> "idle"]
    /\ pTask = [p \in 1..nProducers |-> EmptyFn]
    /\ opc = "idle"
    /\ dArgs = <<TRUE, FALSE, FALSE>>
    /\ dIdx = 1
    /\ inDtor = FALSE
    /\ crashed = FALSE
    /\ nextId = 0
    /\ enqueued = <<>>
    /\ dequeued = <<>>
    /\ executed = <<>>
    /\ faulted = {}
    /\ discarded = {}
    /\ rejected = {}
    /\ garbage = 0
    /\ atCall = <<0, 0>>

\* Every std::thread of workers_ has been joined.
Retired == \A w \in Workers : ~joinable[w]

RejectedIds == {r[1] : r \in rejected}

\* ------------------------------------------------- std::queue / catch clause
\* Mutant of pop: removing the head also loses the entry behind it.
pop_Two(q) == IF Len(q) > 1 THEN Tail(Tail(q)) ELSE Tail(q)

\* tasks_.push(f), tasks_.front(), tasks_.pop(), tasks_.empty()
push(q, f) == Append(q, f)
front(q) == Head(q)
pop(q) == Tail(q)
empty(q) == q = <<>>

\* The handler `catch (const std::exception& e)` of the worker's try block:
\* which task outcomes it handles.
Caught(k) == k = "throws_exception"

\* Mutant of ShouldExit: the exit test without its terminate_ operand.
ShouldExit_EmptyOnly(term, q) == empty(q)

\* The exit test of the worker: tp_.terminate_ && tp_.tasks_.empty()
ShouldExit(term, q) == term /\ empty(q)

Range(s) == {s[i] : i \in 1..Len(s)}

\* The std::function objects that have ever been destroyed by tasks_.pop():
\* what a read of the container's storage outside its live range can return.
StaleFns == Range(dequeued) \cup discarded

\* ------------------------------------------- ThreadPoolWorker::operator()
\* std::unique_lock<std::mutex> lock(tp_.mt_);
W_Lock(w) ==
    /\ ~crashed
    /\ wpc[w] = "lock"
    /\ mt_ = Free
    /\ mt_' = WorkerThread(w)
    /\ wpc' = [wpc EXCEPT ![w] = "check"]
    /\ UNCHANGED <<log_, tasks_, working_, cv_, allowNewTasks_, terminate_,
                   joinable, currentTask>>
    /\ UNCHANGED <<confVars, prodVars, ownerVars, histVars, crashed>>

\* if (tp_.tasks_.empty()) { tp_.working_[id_] = false; tp_.cv_.wait(lock); }
\* cv_.wait releases mt_ and blocks the worker in one atomic step.
W_CheckEmpty(w) ==
    /\ ~crashed
    /\ wpc[w] = "check"
    /\ IF empty(tasks_)
       THEN /\ working_' = [working_ EXCEPT ![w] = FALSE]
            /\ cv_' = cv_ \cup {w}
            /\ mt_' = Free
            /\ wpc' = [wpc EXCEPT ![w] = "wait"]
       ELSE /\ wpc' = [wpc EXCEPT ![w] = "take"]
            /\ UNCHANGED <<working_, cv_, mt_>>
    /\ UNCHANGED <<log_, tasks_, allowNewTasks_, terminate_, joinable, currentTask>>
    /\ UNCHANGED <<confVars, prodVars, ownerVars, histVars, crashed>>

\* cv_.wait(lock) may return without any notify (spurious wake-up).
W_SpuriousWake(w) ==
    /\ ~crashed
    /\ wpc[w] = "wait"
    /\ w \in cv_
    /\ cv_' = cv_ \ {w}
    /\ UNCHANGED <<log_, tasks_, working_, mt_, allowNewTasks_, terminate_,
                   joinable, wpc, currentTask>>
    /\ UNCHANGED <<confVars, prodVars, ownerVars, histVars, crashed>>

\* Return from cv_.wait(lock): the unblocked worker re-acquires mt_.
W_Wake(w) ==
    /\ ~crashed
    /\ wpc[w] = "wait"
    /\ w \notin cv_
    /\ mt_ = Free
    /\ mt_' = WorkerThread(w)
    /\ wpc' = [wpc EXCEPT ![w] = "take"]
    /\ UNCHANGED <<log_, tasks_, working_, cv_, allowNewTasks_, terminate_,
                   joinable, currentTask>>
    /\ UNCHANGED <<confVars, prodVars, ownerVars, histVars, crashed>>

\* if (tp_.terminate_ && tp_.tasks_.empty()) return;   (the lock is released)
W_Exit(w) ==
    /\ ~crashed
    /\ wpc[w] = "take"
    /\ ShouldExit(terminate_, tasks_)
    /\ mt_' = Free
    /\ wpc' = [wpc EXCEPT ![w] = "done"]
    /\ UNCHANGED <<log_, tasks_, working_, cv_, allowNewTasks_, terminate_,
                   joinable, currentTask>>
    /\ UNCHANGED <<confVars, prodVars, ownerVars, histVars, crashed>>

\* currentTask = tp_.tasks_.front(); tp_.tasks_.pop();  } // lock released
W_Dequeue(w) ==
    /\ ~crashed
    /\ wpc[w] = "take"
    /\ ~ShouldExit(terminate_, tasks_)
    /\ ~empty(tasks_)
    /\ currentTask' = [currentTask EXCEPT ![w] = front(tasks_)]
    /\ tasks_' = pop(tasks_)
    /\ dequeued' = Append(dequeued, front(tasks_))
    /\ mt_' = Free
    /\ wpc' = [wpc EXCEPT ![w] = "mark"]
    /\ UNCHANGED <<log_, working_, cv_, allowNewTasks_, terminate_, joinable>>
    /\ UNCHANGED <<confVars, prodVars, ownerVars, crashed>>
    /\ UNCHANGED <<nextId, enqueued, executed, faulted, discarded, rejected, garbage>>

\* The same two statements reached with tasks_ empty and terminate_ false:
\* front() and pop() on an empty std::queue are undefined behaviour.  The
\* outcomes modelled: the process is aborted; or the read yields an empty
\* std::function; or it yields a copy of a std::function that pop() destroyed
\* earlier.  MaxGarbage bounds how often a run survives the read.
W_DequeueEmpty(w) ==
    /\ ~crashed
    /\ wpc[w] = "take"
    /\ ~ShouldExit(terminate_, tasks_)
    /\ empty(tasks_)
    /\ \/ /\ crashed' = TRUE
          /\ UNCHANGED <<poolVars, histVars>>
       \/ /\ garbage < MaxGarbage
          /\ \E f \in {EmptyFn} \cup StaleFns :
                currentTask' = [currentTask EXCEPT ![w] = f]
          /\ garbage' = garbage + 1
          /\ mt_' = Free
          /\ wpc' = [wpc EXCEPT ![w] = "mark"]
          /\ UNCHANGED <<log_, tasks_, working_, cv_, allowNewTasks_, terminate_,
                         joinable, crashed>>
          /\ UNCHANGED <<nextId, enqueued, dequeued, executed, faulted, discarded,
                         rejected>>
    /\ UNCHANGED <<confVars, prodVars, ownerVars>>

\* try { tp_.working_[id_] = true;
W_MarkBusy(w) ==
    /\ ~crashed
    /\ wpc[w] = "mark"
    /\ working_' = [working_ EXCEPT ![w] = TRUE]
    /\ wpc' = [wpc EXCEPT ![w] = "call"]
    /\ UNCHANGED <<log_, tasks_, mt_, cv_, allowNewTasks_, terminate_, joinable,
                   currentTask>>
    /\ UNCHANGED <<confVars, prodVars, ownerVars, histVars, crashed>>

\* currentTask(); } catch (const std::exception& e) { tp_.logMessage(...); }
\* then the next iteration of while (1) with a fresh, empty currentTask.
\* A call of an empty std::function runs no body and throws
\* std::bad_function_call.  An exception the handler does not catch leaves
\* the thread function: std::terminate aborts the process.
W_Call(w, k) ==
    /\ ~crashed
    /\ wpc[w] = "call"
    /\ LET f == currentTask[w]
           r == Outcome(f, k) IN
       /\ executed' = IF f = EmptyFn THEN executed ELSE Append(executed, f)
       /\ faulted' = IF f # EmptyFn /\ r # "returns" THEN faulted \cup {f} ELSE faulted
       /\ IF r = "returns"
          THEN /\ wpc' = [wpc EXCEPT ![w] = "lock"]
               /\ currentTask' = [currentTask EXCEPT ![w] = EmptyFn]
               /\ UNCHANGED <<log_, crashed>>
          ELSE IF Caught(r)
          THEN /\ log_' = logMessage(log_, MsgTaskError)
               /\ wpc' = [wpc EXCEPT ![w] = "lock"]
               /\ currentTask' = [currentTask EXCEPT ![w] = EmptyFn]
               /\ UNCHANGED crashed
          ELSE /\ crashed' = TRUE
               /\ UNCHANGED <<log_, wpc, currentTask>>
    /\ UNCHANGED <<tasks_, working_, mt_, cv_, allowNewTasks_, terminate_, joinable>>
    /\ UNCHANGED <<confVars, prodVars, ownerVars>>
    /\ UNCHANGED <<nextId, enqueued, dequeued, discarded, rejected, garbage>>

Worker(w) ==
    \/ W_Lock(w)
    \/ W_CheckEmpty(w)
    \/ W_SpuriousWake(w)
    \/ W_Wake(w)
    \/ W_Exit(w)
    \/ W_Dequeue(w)
    \/ W_DequeueEmpty(w)
    \/ W_MarkBusy(w)
    \/ \E k \in Kinds : W_Call(w, k)

\* ---------------------------------------------------- ThreadPool::addTask
\* Mutant of Stopped: addTask without its test of allowNewTasks_.
Stopped_Never(allow) == FALSE

\* The test `!allowNewTasks_` made at both places of addTask.
Stopped(allow) == ~allow

\* The call and its first, unlocked test:
\*   if (!allowNewTasks_) { logMessage("ERROR ..."); return; }
\* The task of the call is identified by the number of the call.
AddTask_Check(p) ==
    /\ ~crashed
    /\ opc # "destroyed"
    /\ ppc[p] = "idle"
    /\ nextId < MaxTasks
    /\ nextId' = nextId + 1
    /\ IF Stopped(allowNewTasks_)
       THEN /\ log_' = logMessage(log_, MsgRejected)
            /\ rejected' = rejected \cup {<<nextId + 1, Retired>>}
            /\ UNCHANGED <<ppc, pTask>>
       ELSE /\ pTask' = [pTask EXCEPT ![p] = nextId + 1]
            /\ ppc' = [ppc EXCEPT ![p] = "lock"]
            /\ UNCHANGED <<log_, rejected>>
    /\ UNCHANGED <<tasks_, working_, mt_, cv_, allowNewTasks_, terminate_,
                   joinable, wpc, currentTask>>
    /\ UNCHANGED <<confVars, ownerVars, crashed>>
    /\ UNCHANGED <<enqueued, dequeued, executed, faulted, discarded, garbage>>

\* std::lock_guard<std::mutex> guard(mt_);
AddTask_Lock(p) ==
    /\ ~crashed
    /\ ppc[p] = "lock"
    /\ mt_ = Free
    /\ mt_' = ProducerThread(p)
    /\ ppc' = [ppc EXCEPT ![p] = "push"]
    /\ UNCHANGED <<log_, tasks_, working_, cv_, allowNewTasks_, terminate_,
                   joinable, wpc, currentTask>>
    /\ UNCHANGED <<confVars, pTask, ownerVars, histVars, crashed>>

\* if (!allowNewTasks_) { logMessage("ERROR ..."); return; }
\* tasks_.push(std::function<void()>(function));  }  // guard released
AddTask_Push(p) ==
    /\ ~crashed
    /\ ppc[p] = "push"
    /\ mt_' = Free
    /\ IF Stopped(allowNewTasks_)
       THEN /\ log_' = logMessage(log_, MsgRejected)
            /\ rejected' = rejected \cup {<<pTask[p], Retired>>}
            /\ ppc' = [ppc EXCEPT ![p] = "idle"]
            /\ UNCHANGED <<tasks_, enqueued>>
       ELSE /\ tasks_' = push(tasks_, pTask[p])
            /\ enqueued' = Append(enqueued, pTask[p])
            /\ ppc' = [ppc EXCEPT ![p] = "notify"]
            /\ UNCHANGED <<log_, rejected>>
    /\ pTask' = [pTask EXCEPT ![p] = EmptyFn]
    /\ UNCHANGED <<working_, cv_, allowNewTasks_, terminate_, joinable, wpc,
                   currentTask>>
    /\ UNCHANGED <<confVars, ownerVars, crashed>>
    /\ UNCHANGED <<nextId, dequeued, executed, faulted, discarded, garbage>>

\* cv_.notify_one(): unblocks one of the workers blocked in cv_.wait, if any.
AddTask_Notify(p) ==
    /\ ~crashed
    /\ ppc[p] = "notify"
    /\ IF cv_ = {}
       THEN UNCHANGED cv_
       ELSE \E w \in cv_ : cv_' = cv_ \ {w}
    /\ ppc' = [ppc EXCEPT ![p] = "idle"]
    /\ UNCHANGED <<log_, tasks_, working_, mt_, allowNewTasks_, terminate_,
                   joinable, wpc, currentTask>>
    /\ UNCHANGED <<confVars, pTask, ownerVars, histVars, crashed>>

Producer(p) ==
    \/ AddTask_Check(p)
    \/ AddTask_Lock(p)
    \/ AddTask_Push(p)
    \/ AddTask_Notify(p)

\* ------------------------------------------- ThreadPool::waitUntilComplete
\* Mutant of InvalidArgs: the test written with && in place of ||.
InvalidArgs_AndForOr(a, b, t) == a /\ (b /\ t)

\* if (allowNewTasks && (abandonTasks || terminatePool)) throw std::logic_error
InvalidArgs(a, b, t) == a /\ (b \/ t)

\* The arguments a caller that passes none gets:
\* waitUntilComplete(bool allowNewTasks = true, abandonTasks = false,
\*                   terminatePool = false)
DefaultArgs == <<TRUE, FALSE, FALSE>>

\* Entry of waitUntilComplete(a, b, t): the argument check.  The throw leaves
\* the function before any other statement.
WaitUntilComplete_Enter(a, b, t, dtor) ==
    /\ dArgs' = <<a, b, t>>
    /\ atCall' = IF b THEN <<Len(enqueued), Len(dequeued)>> ELSE <<0, 0>>
    /\ IF InvalidArgs(a, b, t)
       THEN /\ opc' = "thrown"
            /\ UNCHANGED inDtor
       ELSE /\ opc' = "set"
            /\ inDtor' = dtor
    /\ UNCHANGED <<poolVars, confVars, prodVars, histVars, crashed, dIdx>>

\* The caller handles the std::logic_error and carries on.
WaitUntilComplete_Unwind ==
    /\ ~crashed
    /\ opc = "thrown"
    /\ opc' = "idle"
    /\ dArgs' = DefaultArgs
    /\ atCall' = <<0, 0>>
    /\ UNCHANGED <<poolVars, confVars, prodVars, histVars, crashed, dIdx, inDtor>>

\* A call of waitUntilComplete by the owner.  After a terminating call has
\* returned the pool may only be destroyed.
WaitUntilComplete_Call(a, b, t) ==
    /\ ~crashed
    /\ opc = "idle"
    /\ ~Retired
    /\ WaitUntilComplete_Enter(a, b, t, FALSE)

\* ThreadPool::~ThreadPool: waitUntilComplete(false, true, true).  The owner
\* destroys the pool when no other thread is inside addTask.
Destructor ==
    /\ ~crashed
    /\ opc = "idle"
    /\ \A p \in Producers : ppc[p] = "idle"
    /\ WaitUntilComplete_Enter(FALSE, TRUE, TRUE, TRUE)

\* allowNewTasks_ = allowNewTasks;      (mt_ is not held)
WaitUntilComplete_SetAllow ==
    /\ ~crashed
    /\ opc = "set"
    /\ allowNewTasks_' = dArgs[1]
    /\ opc' = IF dArgs[2] THEN "abandonLock" ELSE "pollLock"
    /\ UNCHANGED <<log_, tasks_, working_, mt_, cv_, terminate_, joinable, wpc,
                   currentTask>>
    /\ UNCHANGED <<confVars, prodVars, histVars, crashed>>
    /\ UNCHANGED <<dArgs, dIdx, inDtor, atCall>>

\* The statement after the if (abandonTasks) ... else ... block.
AfterQueue == IF dArgs[3] THEN "terminate" ELSE "scan"

\* if (abandonTasks) { std::lock_guard<std::mutex> guard(mt_);
WaitUntilComplete_AbandonLock ==
    /\ ~crashed
    /\ opc = "abandonLock"
    /\ mt_ = Free
    /\ mt_' = OwnerThread
    /\ opc' = "abandon"
    /\ UNCHANGED <<log_, tasks_, working_, cv_, allowNewTasks_, terminate_,
                   joinable, wpc, currentTask>>
    /\ UNCHANGED <<confVars, prodVars, histVars, crashed>>
    /\ UNCHANGED <<dArgs, dIdx, inDtor, atCall>>

\* while (!tasks_.empty()) tasks_.pop();  }   // guard released
WaitUntilComplete_Abandon ==
    /\ ~crashed
    /\ opc = "abandon"
    /\ tasks_' = <<>>
    /\ discarded' = discarded \cup Range(tasks_)
    /\ mt_' = Free
    /\ opc' = AfterQueue
    /\ dIdx' = 1
    /\ UNCHANGED <<log_, working_, cv_, allowNewTasks_, terminate_, joinable, wpc,
                   currentTask>>
    /\ UNCHANGED <<confVars, prodVars, crashed>>
    /\ UNCHANGED <<nextId, enqueued, dequeued, executed, faulted, rejected, garbage>>
    /\ UNCHANGED <<dArgs, inDtor, atCall>>

\* else while (1) { { std::lock_guard<std::mutex> guard(mt_);
WaitUntilComplete_PollLock ==
    /\ ~crashed
    /\ opc = "pollLock"
    /\ mt_ = Free
    /\ mt_' = OwnerThread
    /\ opc' = "poll"
    /\ UNCHANGED <<log_, tasks_, working_, cv_, allowNewTasks_, terminate_,
                   joinable, wpc, currentTask>>
    /\ UNCHANGED <<confVars, prodVars, histVars, crashed>>
    /\ UNCHANGED <<dArgs, dIdx, inDtor, atCall>>

\* Mutant of WaitUntilComplete_Poll: the loop is left on an empty queue without
\* the assignment allowNewTasks_ = false.
WaitUntilComplete_Poll_NoClose ==
    /\ ~crashed
    /\ opc = "poll"
    /\ mt_' = Free
    /\ opc' = IF empty(tasks_) THEN AfterQueue ELSE "pollLock"
    /\ dIdx' = 1
    /\ UNCHANGED <<log_, tasks_, working_, cv_, allowNewTasks_, terminate_, joinable,
                   wpc, currentTask>>
    /\ UNCHANGED <<confVars, prodVars, histVars, crashed>>
    /\ UNCHANGED <<dArgs, inDtor, atCall>>

\* if (tasks_.empty()) { allowNewTasks_ = false; break; } }   // guard released
\* std::this_thread::sleep_for(100ms); }
WaitUntilComplete_Poll ==
    /\ ~crashed
    /\ opc = "poll"
    /\ mt_' = Free
    /\ IF empty(tasks_)
       THEN /\ allowNewTasks_' = FALSE
            /\ opc' = AfterQueue
       ELSE /\ opc' = "pollLock"
            /\ UNCHANGED allowNewTasks_
    /\ dIdx' = 1
    /\ UNCHANGED <<log_, tasks_, working_, cv_, terminate_, joinable, wpc,
                   currentTask>>
    /\ UNCHANGED <<confVars, prodVars, histVars, crashed>>
    /\ UNCHANGED <<dArgs, inDtor, atCall>>

\* if (terminatePool) { terminate_ = true;      (mt_ is not held)
WaitUntilComplete_SetTerminate ==
    /\ ~crashed
    /\ opc = "terminate"
    /\ terminate_' = TRUE
    /\ opc' = "notifyAll"
    /\ UNCHANGED <<log_, tasks_, working_, mt_, cv_, allowNewTasks_, joinable, wpc,
                   currentTask>>
    /\ UNCHANGED <<confVars, prodVars, histVars, crashed>>
    /\ UNCHANGED <<dArgs, dIdx, inDtor, atCall>>

\* cv_.notify_all(): unblocks every worker that is blocked in cv_.wait now.
WaitUntilComplete_NotifyAll ==
    /\ ~crashed
    /\ opc = "notifyAll"
    /\ cv_' = {}
    /\ opc' = "join"
    /\ dIdx' = 1
    /\ UNCHANGED <<log_, tasks_, working_, mt_, allowNewTasks_, terminate_,
                   joinable, wpc, currentTask>>
    /\ UNCHANGED <<confVars, prodVars, histVars, crashed>>
    /\ UNCHANGED <<dArgs, inDtor, atCall>>

\* The owner leaves waitUntilComplete; the destructor's call ends the pool.
Returned == IF inDtor THEN "destroyed" ELSE "idle"

\* Mutant of WaitUntilComplete_Join: detach() in place of join(): the loop does not wait
\* for the worker's thread function to return.
WaitUntilComplete_Join_Detach ==
    /\ ~crashed
    /\ opc = "join"
    /\ IF dIdx > nThreads
       THEN /\ opc' = Returned
            /\ dIdx' = 1
            /\ dArgs' = DefaultArgs
            /\ atCall' = <<0, 0>>
            /\ UNCHANGED joinable
       ELSE /\ joinable' = [joinable EXCEPT ![dIdx] = FALSE]
            /\ dIdx' = dIdx + 1
            /\ UNCHANGED <<opc, dArgs, atCall>>
    /\ UNCHANGED <<log_, tasks_, working_, mt_, cv_, allowNewTasks_, terminate_,
                   wpc, currentTask>>
    /\ UNCHANGED <<confVars, prodVars, histVars, crashed>>
    /\ UNCHANGED inDtor

\* for (auto& w : workers_) { if (w.joinable()) w.join(); }  }
\* join() blocks until the worker's thread function has returned.
WaitUntilComplete_Join ==
    /\ ~crashed
    /\ opc = "join"
    /\ IF dIdx > nThreads
       THEN /\ opc' = Returned
            /\ dIdx' = 1
            /\ dArgs' = DefaultArgs
            /\ atCall' = <<0, 0>>
            /\ UNCHANGED joinable
       ELSE IF ~joinable[dIdx]
       THEN /\ dIdx' = dIdx + 1
            /\ UNCHANGED <<opc, joinable, dArgs, atCall>>
       ELSE /\ wpc[dIdx] = "done"
            /\ joinable' = [joinable EXCEPT ![dIdx] = FALSE]
            /\ dIdx' = dIdx + 1
            /\ UNCHANGED <<opc, dArgs, atCall>>
    /\ UNCHANGED <<log_, tasks_, working_, mt_, cv_, allowNewTasks_, terminate_,
                   wpc, currentTask>>
    /\ UNCHANGED <<confVars, prodVars, histVars, crashed>>
    /\ UNCHANGED inDtor

\* else { while (std::any_of(working_.cbegin(), working_.cend(), ...))
\*          std::this_thread::sleep_for(100ms);
\* any_of reads the flags one after the other, without mt_; a true flag ends
\* the pass and, after the sleep, a new pass starts at the first flag.
WaitUntilComplete_Scan ==
    /\ ~crashed
    /\ opc = "scan"
    /\ IF dIdx > nThreads
       THEN /\ opc' = "reopen"
            /\ dIdx' = 1
       ELSE IF working_[dIdx]
       THEN /\ dIdx' = 1
            /\ UNCHANGED opc
       ELSE /\ dIdx' = dIdx + 1
            /\ UNCHANGED opc
    /\ UNCHANGED <<poolVars, confVars, prodVars, histVars, crashed>>
    /\ UNCHANGED <<dArgs, inDtor, atCall>>

\* allowNewTasks_ = true;  } }      (mt_ is not held; the call returns)
WaitUntilComplete_Reopen ==
    /\ ~crashed
    /\ opc = "reopen"
    /\ allowNewTasks_' = TRUE
    /\ opc' = Returned
    /\ dArgs' = DefaultArgs
    /\ atCall' = <<0, 0>>
    /\ UNCHANGED <<log_, tasks_, working_, mt_, cv_, terminate_, joinable, wpc,
                   currentTask>>
    /\ UNCHANGED <<confVars, prodVars, histVars, crashed>>
    /\ UNCHANGED <<dIdx, inDtor>>

Owner ==
    \/ \E a, b, t \in BOOLEAN : WaitUntilComplete_Call(a, b, t)
    \/ Destructor
    \/ WaitUntilComplete_Unwind
    \/ WaitUntilComplete_SetAllow
    \/ WaitUntilComplete_AbandonLock
    \/ WaitUntilComplete_Abandon
    \/ WaitUntilComplete_PollLock
    \/ WaitUntilComplete_Poll
    \/ WaitUntilComplete_SetTerminate
    \/ WaitUntilComplete_NotifyAll
    \/ WaitUntilComplete_Join
    \/ WaitUntilComplete_Scan
    \/ WaitUntilComplete_Reopen

\* ------------------------------------------------------------------- Spec
Next ==
    \/ \E w \in Workers : Worker(w)
    \/ \E p \in Producers : Producer(p)
    \/ Owner

Spec == Init /\ [][Next]_vars

\* Fair scheduling: a thread that can take its next step takes it, and a thread
\* that waits for mt_ gets it if it is free again and again.  Nothing forces a
\* client to call addTask or waitUntilComplete, and nothing forces a spurious
\* wake-up.
WorkerRuns(w) ==
    /\ w \in Workers
    /\ \/ W_CheckEmpty(w)
       \/ W_Exit(w)
       \/ W_Dequeue(w)
       \/ W_DequeueEmpty(w)
       \/ W_MarkBusy(w)
       \/ \E k \in Kinds : W_Call(w, k)

WorkerLocks(w) == w \in Workers /\ (W_Lock(w) \/ W_Wake(w))

ProducerRuns(p) == p \in Producers /\ (AddTask_Push(p) \/ AddTask_Notify(p))

ProducerLocks(p) == p \in Producers /\ AddTask_Lock(p)

OwnerRuns ==
    \/ WaitUntilComplete_Unwind
    \/ WaitUntilComplete_SetAllow
    \/ WaitUntilComplete_Abandon
    \/ WaitUntilComplete_Poll
    \/ WaitUntilComplete_SetTerminate
    \/ WaitUntilComplete_NotifyAll
    \/ WaitUntilComplete_Join
    \/ WaitUntilComplete_Scan
    \/ WaitUntilComplete_Reopen

OwnerLocks == WaitUntilComplete_AbandonLock \/ WaitUntilComplete_PollLock

Fairness ==
    /\ \A w \in 1..MaxWorkers : WF_vars(WorkerRuns(w)) /\ SF_vars(WorkerLocks(w))
    /\ \A p \in 1..MaxProducers : WF_vars(ProducerRuns(p)) /\ SF_vars(ProducerLocks(p))
    /\ WF_vars(OwnerRuns)
    /\ SF_vars(OwnerLocks)

FairSpec == Spec /\ Fairness

\* ----------------------------------------------------------------- claims
\* The step with which a waitUntilComplete(a, b, t) call returns normally.
WaitUntilCompleteReturns(a, b, t) ==
    /\ dArgs = <<a, b, t>>
    /\ opc \in {"join", "reopen"}
    /\ opc' \in {"idle", "destroyed"}

\* C1: at the moment waitUntilComplete(false, false, false) returns, the
\* queue is empty and every task a worker has dequeued has finished executing:
\* no task is dequeued by a worker but not yet finished.
C1_DrainReturnsQuiescent ==
    [][WaitUntilCompleteReturns(FALSE, FALSE, FALSE) =>
         /\ tasks_' = <<>>
         /\ Range(dequeued') \subseteq Range(executed')]_vars

\* C2: a waitUntilComplete call with terminatePool = true returns; no worker
\* stays blocked on cv_ for ever.  Stated on finite runs: the owner is never
\* left in the join loop, after notify_all, with a worker blocked in cv_.wait
\* and no addTask call under way that could still notify it.  In such a state
\* no step of the program unblocks the worker (addTask is refused from there
\* on), so the join never returns.
C2_TerminateNeverStrandsWorker ==
    ~(/\ opc = "join"
      /\ ~crashed
      /\ \E w \in Workers : wpc[w] = "wait" /\ w \in cv_
      /\ \A p \in Producers : ppc[p] = "idle")

\* C3: a waitUntilComplete call with allowNewTasks and (abandonTasks or
\* terminatePool) throws at once and leaves allowNewTasks_, terminate_, the
\* queue and every worker as they were.
C3_InvalidDrainThrowsUnchanged ==
    /\ [][(opc = "idle" /\ opc' # "idle" /\ dArgs'[1] /\ (dArgs'[2] \/ dArgs'[3])) =>
            /\ opc' = "thrown"
            /\ UNCHANGED <<allowNewTasks_, terminate_, tasks_, working_, cv_, mt_,
                           wpc, currentTask, joinable, log_>>]_vars
    /\ [][(opc = "thrown" /\ opc' # "thrown") =>
            /\ opc' = "idle"
            /\ UNCHANGED <<allowNewTasks_, terminate_, tasks_, working_, cv_, mt_,
                           wpc, currentTask, joinable, log_>>]_vars

\* C3 witness: an invalid call has thrown while a task was queued and a
\* worker was running another one.
C3_Witness ==
    /\ opc = "thrown"
    /\ tasks_ # <<>>
    /\ \E w \in Workers : wpc[w] = "call"

C5_SubmitRejectedOrAppended ==
    /\ [][(nextId' # nextId /\ ~allowNewTasks_) =>
            /\ log_' = Append(log_, MsgRejected)
            /\ nextId' \in {r[1] : r \in rejected'}
            /\ UNCHANGED <<tasks_, cv_, mt_, ppc, enqueued>>]_vars
    /\ [](RejectedIds \cap (Range(tasks_) \cup Range(enqueued) \cup Range(executed)) = {})
    /\ [][\A p \in Producers :
            (nextId' # nextId /\ allowNewTasks_ /\ ppc[p] # ppc'[p]) =>
               /\ ppc'[p] = "lock"
               /\ pTask'[p] = nextId'
               /\ log_' = log_]_vars
    /\ [][\A p \in Producers :
            (ppc[p] = "push" /\ ppc'[p] # "push" /\ allowNewTasks_) =>
               /\ tasks_' = Append(tasks_, pTask[p])
               /\ log_' = log_]_vars
    /\ [][allowNewTasks_' # allowNewTasks_ => opc \in {"set", "poll", "reopen"}]_vars

\* C5 witness: one addTask call has been refused and another one's task has
\* been appended to the queue.
C5_Witness ==
    /\ rejected # {}
    /\ tasks_ # <<>>

\* Number of entries of the sequence s that are equal to x.
Count(s, x) == Cardinality({i \in 1..Len(s) : s[i] = x})

\* Position of x in the sequence s (0 when x is not in s).
Pos(s, x) == IF \E i \in 1..Len(s) : s[i] = x
             THEN CHOOSE i \in 1..Len(s) : s[i] = x
             ELSE 0

\* C6: a task whose body raises a fault aborts only that execution: the fault
\* is caught and logged, the worker stays in its loop, and the faulted task is
\* not executed again.  (The claim adds that a task submitted afterwards still
\* runs; the part stated here is the part a finite run decides.)
C6_FaultContained ==
    /\ [][\A w \in Workers :
            (wpc[w] = "call" /\ faulted' # faulted) =>
               /\ ~crashed'
               /\ wpc'[w] = "lock"
               /\ log_' = Append(log_, MsgTaskError)]_vars
    /\ [](\A t \in faulted : Count(executed, t) = 1)

\* C7: tasks are dequeued in the order in which they were enqueued, for any
\* number of workers; with one worker and one producer the tasks execute in
\* the order in which they were submitted, each once.
C7_FifoOrder ==
    /\ \A i, j \in 1..Len(dequeued) :
          i < j => Pos(enqueued, dequeued[i]) < Pos(enqueued, dequeued[j])
    /\ (nThreads = 1 /\ nProducers = 1) =>
          \A i, j \in 1..Len(executed) : i < j => executed[i] < executed[j]

\* C8: each accepted task is dequeued by at most one worker and executed at
\* most once; two workers never hold the same queue entry.
C8_ExclusiveHandOff ==
    /\ \A t \in 1..MaxTasks : Count(dequeued, t) <= 1 /\ Count(executed, t) <= 1
    /\ \A v, w \in Workers :
          (v # w /\ wpc[v] \in {"mark", "call"} /\ wpc[w] \in {"mark", "call"}
             /\ currentTask[v] # EmptyFn) => currentTask[v] # currentTask[w]

\* C9: when waitUntilComplete(false, true, false) is called after N tasks have
\* been submitted (none is accepted during the call), the tasks that execute
\* are exactly those the workers had dequeued at the moment of the call: at
\* the return, no further task has been dequeued.
C9_AbandonCountAtCall ==
    [][(WaitUntilCompleteReturns(FALSE, TRUE, FALSE) /\ Len(enqueued') = atCall[1]) =>
          Len(dequeued') = atCall[2]]_vars

\* C10: every waitUntilComplete call with terminatePool = false returns with
\* allowNewTasks_ = true, terminate_ = false and all workers alive, and a task
\* submitted after the return is accepted and eventually executed.  A task t
\* accepted after an earlier addTask call was refused was submitted after a
\* waitUntilComplete returned: only the last statement of a non-terminating
\* call turns allowNewTasks_ from false to true.  Such a task runs unless a
\* later abandoning call discards it.
C10_ReusableAfterDrain ==
    /\ [][(opc = "reopen" /\ opc' # "reopen") =>
            /\ allowNewTasks_' /\ ~terminate_' /\ ~crashed'
            /\ \A w \in Workers : wpc'[w] # "done"]_vars
    /\ \A t \in 1..MaxTasks :
          (t \in Range(tasks_) /\ \E r \in RejectedIds : r < t)
             ~> (t \in Range(executed) \/ t \in discarded)

\* The tasks of the addTask calls that have not yet returned or pushed.
InAddTask == {pTask[p] : p \in Producers} \ {EmptyFn}

\* C11: an addTask call, also one that races with waitUntilComplete, ends in
\* exactly one of two ways, refused (queue unchanged) or pushed once; and a
\* pushed task leaves the queue only by a worker's dequeue, after which the
\* worker holds it until its body has run, or by the discard loop of a
\* waitUntilComplete called with abandonTasks = true.
C11_SubmitNeverSilentlyDropped ==
    /\ [](\A t \in 1..nextId :
            /\ Count(enqueued, t) <= 1
            /\ IF t \in InAddTask
               THEN t \notin RejectedIds /\ t \notin Range(enqueued)
               ELSE (t \in RejectedIds) # (t \in Range(enqueued)))
    /\ [][rejected' # rejected => tasks_' = tasks_]_vars
    /\ [](\A t \in Range(enqueued) :
            t \in Range(tasks_) \/ t \in Range(dequeued) \/ t \in discarded)
    /\ [][\A t \in Range(tasks_) \ Range(tasks_') :
            \/ \E w \in Workers :
                  /\ wpc[w] = "take" /\ wpc'[w] = "mark"
                  /\ t = Head(tasks_) /\ currentTask'[w] = t
                  /\ dequeued' = Append(dequeued, t)
            \/ /\ opc = "abandon" /\ dArgs[2]
               /\ t \in discarded']_vars
    /\ [](\A t \in Range(dequeued) :
            \/ t \in Range(executed)
            \/ \E w \in Workers : currentTask[w] = t /\ wpc[w] \in {"mark", "call"})

\* C11 witness: a task was pushed while an abandoning waitUntilComplete was
\* under way and has been removed by its discard loop, and another addTask call
\* has been refused.
C11_Witness ==
    /\ opc \in {"scan", "reopen", "terminate", "notifyAll", "join"}
    /\ dArgs[2]
    /\ Len(enqueued) > atCall[1]
    /\ enqueued[Len(enqueued)] \in discarded
    /\ rejected # {}

\* C12: in every state, working_[w] is true exactly while worker w is
\* executing a task body: false while it is blocked in cv_.wait, true from the
\* start of the body, false again once the body has finished, also when more
\* tasks are queued.  Stated for the runs in which no worker has read an empty
\* queue, so that a violation is one of a worker that ran real tasks only.
C12_BusyIffExecuting ==
    garbage = 0 => \A w \in Workers : working_[w] <=> wpc[w] = "call"

\* C13: a worker blocks in cv_.wait only when tasks_ is empty and terminate_
\* is false: no worker begins a wait while terminate_ is true, and none is
\* still blocked with terminate_ true once notify_all has been issued.
C13_WaitOnlyIfNotTerminating ==
    /\ [][\A w \in Workers :
            (wpc[w] # "wait" /\ wpc'[w] = "wait") =>
               empty(tasks_) /\ ~terminate_]_vars
    /\ [](\A w \in Workers :
            (w \in cv_ /\ terminate_) => opc = "notifyAll")

\* The thread that takes the step holds mt_ when the step begins.
StepHoldsLock ==
    \/ opc' # opc /\ mt_ = OwnerThread
    \/ \E w \in Workers : wpc'[w] # wpc[w] /\ mt_ = WorkerThread(w)
    \/ \E p \in Producers : ppc'[p] # ppc[p] /\ mt_ = ProducerThread(p)

\* C14: every step that changes allowNewTasks_, terminate_ or the contents of
\* tasks_ (in addTask, in waitUntilComplete and in the worker loop) is taken by
\* a thread that holds mt_.
C14_MutationsUnderLock ==
    [][(allowNewTasks_' # allowNewTasks_ \/ terminate_' # terminate_
          \/ tasks_' # tasks_) => StepHoldsLock]_vars

\* C15: a worker executes tasks_.front() / tasks_.pop() only with tasks_
\* non-empty: whenever a worker holds mt_ past the wait and is not about to
\* return, there is a task at the head of the queue.
C15_DequeueOnlyNonEmpty ==
    \A w \in Workers :
        (wpc[w] = "take" /\ ~ShouldExit(terminate_, tasks_)) => ~empty(tasks_)

\* C16: the discard loop of waitUntilComplete(_, true, _) removes every task
\* that is in the queue when it runs and changes no worker's state; a removed
\* task is never handed to a worker nor executed afterwards, and a task that a
\* worker had dequeued before stays with that worker until its body has run.
C16_AbandonDiscardsQueuedOnly ==
    /\ [][(opc = "abandon" /\ opc' # "abandon") =>
            /\ tasks_' = <<>>
            /\ discarded' = discarded \cup Range(tasks_)
            /\ UNCHANGED <<wpc, currentTask, working_, cv_, dequeued, executed>>]_vars
    /\ [](discarded \cap Range(executed) = {})
    /\ [](\A w \in Workers : currentTask[w] \notin discarded)
    /\ [](\A t \in Range(dequeued) :
            \/ t \in Range(executed)
            \/ \E w \in Workers : currentTask[w] = t /\ wpc[w] \in {"mark", "call"})

\* The owner is in a waitUntilComplete call with abandonTasks = false and has
\* left the polling loop: it has seen tasks_ empty and has neither reached the
\* end of the call nor executed the final allowNewTasks_ = true.
QueueCertifiedEmpty ==
    /\ ~dArgs[2]
    /\ opc \in {"terminate", "notifyAll", "join", "scan", "reopen"}

\* C17: in a waitUntilComplete call with abandonTasks = false, from the step
\* that finds the queue empty until the call re-opens intake or returns,
\* allowNewTasks_ is false, no addTask call pushes a task and the queue stays
\* empty.
C17_IntakeClosedWhileCertified ==
    /\ [](QueueCertifiedEmpty => ~allowNewTasks_ /\ empty(tasks_))
    /\ [][QueueCertifiedEmpty => enqueued' = enqueued]_vars
    /\ [][(opc = "poll" /\ opc' \notin {"poll", "pollLock"}) =>
            empty(tasks_) /\ ~allowNewTasks_' /\ tasks_' = tasks_]_vars

\* C17 witness: a waitUntilComplete(true, false, false) call has found the
\* queue empty while a worker is still running a task, and an addTask call
\* that passed its first test before that is now at its second test, under
\* the lock.
C17_Witness ==
    /\ QueueCertifiedEmpty
    /\ dArgs[1]
    /\ \E w \in Workers : wpc[w] = "call"
    /\ \E p \in Producers : ppc[p] = "push"

C19_NoTaskStranded ==
    /\ []((~empty(tasks_) /\ ~crashed) =>
            \/ \E w \in Workers : wpc[w] # "done" /\ w \notin cv_
            \/ \E p \in Producers : ppc[p] = "notify")
    /\ ([](~dArgs[2] /\ faulted = {}) =>
          \A t \in 1..MaxTasks : (t \in Range(enqueued)) ~> (t \in Range(executed)))

\* C20: under fair scheduling and with task bodies that return, every
\* waitUntilComplete call with allowNewTasks = false and terminatePool = false
\* returns: its polling loop eventually finds tasks_ empty, its scan of
\* working_ eventually finds every flag false, and the owner leaves the call.
C20_DrainEventuallyReturns ==
    [](faulted = {}) =>
       ((opc = "set" /\ ~dArgs[1] /\ ~dArgs[3]) ~> (opc = "idle"))

=============================================================================
